---- MODULE Spec2Model ----
(***************************************************************************)
(* Model of overlay_from_json.py (DirectEditOCR): the unit conversions     *)
(* px_to_inches / px_to_emu in IEEE-754 double arithmetic, and the         *)
(* build_from_json pipeline that turns a region file into a slide deck     *)
(* and a word-processor document.                                          *)
(***************************************************************************)
EXTENDS Integers, Sequences, FiniteSets, TLC

(***************************************************************************)
(* Binary floating point.  Python's float is an IEEE-754 double: every     *)
(* arithmetic result is the exact result rounded to 53 significant bits,   *)
(* ties to even.  A non-negative double is modelled as a record            *)
(* [m |-> bits, e |-> k]: m is its significand, most significant bit       *)
(* first, without leading zeros and at most MantBits long, and the value   *)
(* is Nat(m) * 2^k.  Zero is [m |-> <<>>, e |-> 0].                         *)
(***************************************************************************)
MantBits == 53

\* the 8 bits of q (0 <= q < 256), most significant first
Byte(q) ==
    <<(q \div 128) % 2, (q \div 64) % 2, (q \div 32) % 2, (q \div 16) % 2,
      (q \div 8) % 2, (q \div 4) % 2, (q \div 2) % 2, q % 2>>

\* the number written by the 8 bits bs
ByteNat(bs) ==
    128 * bs[1] + 64 * bs[2] + 32 * bs[3] + 16 * bs[4]
        + 8 * bs[5] + 4 * bs[6] + 2 * bs[7] + bs[8]

AnyOne(bs) == \E k \in 1..Len(bs) : bs[k] = 1

\* bs without its leading zeros
StripZeros(bs) ==
    IF ~AnyOne(bs) THEN <<>>
    ELSE LET k == CHOOSE n \in 1..Len(bs) : bs[n] = 1 /\ \A j \in 1..(n - 1) : bs[j] = 0
         IN  SubSeq(bs, k, Len(bs))

\* the bits of n, most significant first, eight to a step
RECURSIVE NatBits(_)
NatBits(n) ==
    IF n < 256 THEN StripZeros(Byte(n))
    ELSE NatBits(n \div 256) \o Byte(n % 256)

\* the number written by bs, eight bits to a step while eight remain
RECURSIVE BitsNat(_)
BitsNat(bs) ==
    IF bs = <<>> THEN 0
    ELSE IF Len(bs) >= 8
    THEN 256 * BitsNat(SubSeq(bs, 1, Len(bs) - 8)) + ByteNat(SubSeq(bs, Len(bs) - 7, Len(bs)))
    ELSE 2 * BitsNat(SubSeq(bs, 1, Len(bs) - 1)) + bs[Len(bs)]

RECURSIVE Pow2(_)
Pow2(k) == IF k = 0 THEN 1 ELSE 2 * Pow2(k - 1)

\* bs + 1 on a bit string (the carry may lengthen it by one bit): the last
\* zero becomes one and the ones after it zero
IncBits(bs) ==
    IF ~(\E k \in 1..Len(bs) : bs[k] = 0)
    THEN <<1>> \o [k \in 1..Len(bs) |-> 0]
    ELSE LET z == CHOOSE n \in 1..Len(bs) :
                      bs[n] = 0 /\ \A j \in (n + 1)..Len(bs) : bs[j] = 1
         IN  [k \in 1..Len(bs) |-> IF k < z THEN bs[k] ELSE IF k = z THEN 1 ELSE 0]

\* The double nearest to Nat(bs) * 2^e (+ a positive amount below one unit of
\* bs's last place when sticky): round to nearest, ties to even.
RoundBits(bs0, e, sticky) ==
    LET bs == StripZeros(bs0) IN
    IF Len(bs) <= MantBits
    THEN [m |-> bs, e |-> IF bs = <<>> THEN 0 ELSE e]
    ELSE LET keep  == SubSeq(bs, 1, MantBits)
             guard == bs[MantBits + 1]
             rest  == sticky \/ AnyOne(SubSeq(bs, MantBits + 2, Len(bs)))
             up    == guard = 1 /\ (rest \/ keep[MantBits] = 1)
             e1    == e + (Len(bs) - MantBits)
             r     == IF up THEN IncBits(keep) ELSE keep
         IN  IF Len(r) > MantBits
             THEN [m |-> SubSeq(r, 1, MantBits), e |-> e1 + 1]
             ELSE [m |-> r, e |-> e1]

\* the next n quotient bits of r / d (0 <= r < d), by long division, eight
\* bits to a step while eight remain
RECURSIVE DivBits(_, _, _)
DivBits(r, d, n) ==
    IF n = 0 THEN <<>>
    ELSE IF n >= 8 THEN Byte((256 * r) \div d) \o DivBits((256 * r) % d, d, n - 8)
    ELSE IF 2 * r >= d THEN <<1>> \o DivBits(2 * r - d, d, n - 1)
    ELSE <<0>> \o DivBits(2 * r, d, n - 1)

\* the remainder left after those n bits
RECURSIVE DivRem(_, _, _)
DivRem(r, d, n) ==
    IF n = 0 THEN r
    ELSE IF n >= 8 THEN DivRem((256 * r) % d, d, n - 8)
    ELSE DivRem((2 * r) % d, d, n - 1)

\* number of leading zero bits of the fraction r / d (0 < r < d)
RECURSIVE LeadZeros(_, _)
LeadZeros(r, d) ==
    IF 256 * r < d THEN 8 + LeadZeros(256 * r, d)
    ELSE IF 2 * r >= d THEN 0
    ELSE 1 + LeadZeros(2 * r, d)

\* float(p) / float(d) for integers p >= 0, d > 0
FDiv(p, d) ==
    IF p = 0 THEN [m |-> <<>>, e |-> 0]
    ELSE LET ip == NatBits(p \div d)
             r  == p % d
             z  == IF ip = <<>> /\ r > 0 THEN LeadZeros(r, d) ELSE 0
             n  == z + (MantBits + 2) - Len(ip)
         IN  RoundBits(ip \o DivBits(r, d, n), 0 - n, DivRem(r, d, n) # 0)

\* Nat(bs) * c + carry, as a bit string, eight bits of bs to a step while
\* eight remain
RECURSIVE MulBits(_, _, _)
MulBits(bs, c, carry) ==
    IF bs = <<>> THEN NatBits(carry)
    ELSE IF Len(bs) >= 8
    THEN LET t == ByteNat(SubSeq(bs, Len(bs) - 7, Len(bs))) * c + carry
         IN  MulBits(SubSeq(bs, 1, Len(bs) - 8), c, t \div 256) \o Byte(t % 256)
    ELSE LET t == bs[Len(bs)] * c + carry
         IN  IF t % 2 = 0
             THEN Append(MulBits(SubSeq(bs, 1, Len(bs) - 1), c, t \div 2), 0)
             ELSE Append(MulBits(SubSeq(bs, 1, Len(bs) - 1), c, t \div 2), 1)

\* x * float(c) for a double x and an integer c > 0
FMulInt(x, c) == RoundBits(MulBits(x.m, c, 0), x.e, FALSE)

\* int(x): the integer part of a non-negative double
FTrunc(x) ==
    IF x.e >= 0 THEN BitsNat(x.m) * Pow2(x.e)
    ELSE IF Len(x.m) + x.e <= 0 THEN 0
    ELSE BitsNat(SubSeq(x.m, 1, Len(x.m) + x.e))

\* round(x): nearest integer, ties to even
FRound(x) ==
    IF x.e >= 0 THEN BitsNat(x.m) * Pow2(x.e)
    ELSE LET k    == Len(x.m) + x.e
             ip   == IF k <= 0 THEN 0 ELSE BitsNat(SubSeq(x.m, 1, k))
             half == IF k < 0 THEN 0 ELSE x.m[k + 1]
             rest == k < 0 \/ AnyOne(SubSeq(x.m, k + 2, Len(x.m)))
         IN  IF half = 1 /\ (rest \/ ip % 2 = 1) THEN ip + 1 ELSE ip

EMU_PER_INCH == 914400

px_to_inches(px, dpi) == FDiv(px, dpi)

\* px_to_emu had it rounded to the nearest unit instead of truncating
px_to_emu_round(px, dpi) == FRound(FMulInt(px_to_inches(px, dpi), EMU_PER_INCH))

px_to_emu(px, dpi) == FTrunc(FMulInt(px_to_inches(px, dpi), EMU_PER_INCH))


(***************************************************************************)
(* python-pptx / python-docx lengths: Inches(x) and Emu(x) are int          *)
(* subclasses built with int(...), so a float argument is truncated.       *)
(***************************************************************************)
Inches(x) == FTrunc(FMulInt(x, EMU_PER_INCH))

(***************************************************************************)
(* Text.  A string is a sequence of one-character strings.                 *)
(***************************************************************************)
EDIT == <<"[", "e", "d", "i", "t", "]">>

Whitespace == {" ", "\n"}

RECURSIVE LStrip(_)
LStrip(s) ==
    IF s = <<>> THEN <<>>
    ELSE IF s[1] \in Whitespace THEN LStrip(Tail(s)) ELSE s

RECURSIVE RStrip(_)
RStrip(s) ==
    IF s = <<>> THEN <<>>
    ELSE IF s[Len(s)] \in Whitespace THEN RStrip(SubSeq(s, 1, Len(s) - 1)) ELSE s

\* str.strip()
Strip(s) == RStrip(LStrip(s))

\* ocr_crop: what it returns when the engine returned txt
ocr_crop(txt) == Strip(txt)

\* the assignment without its fallback: bb["text"] = txt
PrefillText_nofallback(txt) == txt

\* bb["text"] = txt if txt else "[edit]"
PrefillText(txt) == IF txt # <<>> THEN txt ELSE EDIT

(***************************************************************************)
(* Paths.  A path is the sequence of the pieces of its name, drawn from    *)
(* letters, "_clean" and the dotted suffixes, so two paths are the same    *)
(* string exactly when they are the same sequence.  A last piece that      *)
(* starts with a dot is the suffix pathlib sees.                           *)
(***************************************************************************)
Suffixes == {".png", ".gif"}

\* str(Path(p).with_suffix(""))
with_suffix_empty(p) ==
    IF Len(p) > 1 /\ p[Len(p)] \in Suffixes THEN SubSeq(p, 1, Len(p) - 1) ELSE p

\* out_path of inpaint_background
clean_path(p) == with_suffix_empty(p) \o <<"_clean", ".png">>

(***************************************************************************)
(* The inputs of a run.                                                    *)
(***************************************************************************)
MaxPages == 2

\* box records of a region file; B2 already carries a "text" key
B1 == [left |-> 300, top |-> 150, width |-> 600, height |-> 120]
B2 == [left |-> 41, top |-> 37, width |-> 13, height |-> 79, text |-> <<>>]

RECURSIVE SeqsUpTo(_, _)
SeqsUpTo(S, n) ==
    IF n = 0 THEN {<<>>}
    ELSE LET shorter == SeqsUpTo(S, n - 1)
         IN  shorter \cup {Append(q, x) : q \in {r \in shorter : Len(r) = n - 1}, x \in S}

A_PNG       == <<"a", ".png">>
A_CLEAN_PNG == <<"a", "_clean", ".png">>
B_GIF       == <<"b", ".gif">>
C_PNG       == <<"c", ".png">>

\* The image files on disk before the run: two PNGs of different sizes, a GIF
\* (PIL opens it, cv2.imread returns None for it), and nothing at c.png.
Disk0 ==
    (A_PNG :> [w |-> 600, h |-> 300, fmt |-> "png", data |-> <<"a">>]) @@
    (A_CLEAN_PNG :> [w |-> 300, h |-> 600, fmt |-> "png", data |-> <<"a2">>]) @@
    (B_GIF :> [w |-> 300, h |-> 300, fmt |-> "gif", data |-> <<"b">>])

\* the entries a region file's "images" list is made of
ImageMetas ==
    { [path |-> A_PNG,       boxes |-> <<B1, B2>>],
      [path |-> A_PNG,       boxes |-> <<>>],
      [path |-> A_CLEAN_PNG, boxes |-> <<B2, B1>>],
      [path |-> B_GIF,       boxes |-> <<B1>>],
      [path |-> C_PNG,       boxes |-> <<B2>>] }

DpiValues == {96, 300}

Args == [out_pptx : BOOLEAN, out_docx : BOOLEAN, dpi : DpiValues,
         erase : BOOLEAN, ocr_prefill : BOOLEAN]

\* what pytesseract.image_to_string may return for a crop
OcrTexts == { <<>>, <<" ", "\n">>, <<" ", "a", " ", "b", "\n">> }


(***************************************************************************)
(* Documents.                                                              *)
(*   Presentation(): its slide size (0 stands for the template's own       *)
(*   size, which the program has not set) and its slides; a slide is the   *)
(*   sequence of its shapes.  Document(): its single section's page size,  *)
(*   the pictures of that section's header, and the body elements.         *)
(***************************************************************************)
Presentation == [slide_width |-> 0, slide_height |-> 0, slides |-> <<>>]

Document == [page_width |-> 0, page_height |-> 0, header |-> <<>>, body |-> <<>>]

\* bb = dict(b); bb["text"] = t
SetText(b, t) ==
    [k \in DOMAIN b \cup {"text"} |-> IF k = "text" THEN t ELSE b[k]]

\* b.get("text", "[edit]")
GetText(b) == IF "text" \in DOMAIN b THEN b.text ELSE EDIT

add_pptx_bg(slide, img_path, w_in, h_in) ==
    Append(slide, [kind |-> "picture", left |-> 0, top |-> 0,
                   width |-> Inches(w_in), height |-> Inches(h_in),
                   text |-> <<>>, image |-> img_path])

RECURSIVE add_pptx_text(_, _, _)
add_pptx_text(slide, boxes, dpi) ==
    IF boxes = <<>> THEN slide
    ELSE LET b == Head(boxes)
             tb == [kind |-> "textbox",
                    left   |-> Inches(px_to_inches(b.left, dpi)),
                    top    |-> Inches(px_to_inches(b.top, dpi)),
                    width  |-> Inches(px_to_inches(b.width, dpi)),
                    height |-> Inches(px_to_inches(b.height, dpi)),
                    text |-> GetText(b), image |-> <<>>]
         IN  add_pptx_text(Append(slide, tb), Tail(boxes), dpi)

\* doc.add_page_break()
add_page_break(d) ==
    [d EXCEPT !.body = Append(@, [kind |-> "page_break", left |-> 0, top |-> 0,
                                  width |-> 0, height |-> 0, text |-> <<>>])]

\* section = doc.sections[-1]; section.header. ... .add_picture(img_path, ...)
add_docx_bg_header(d, img_path) ==
    [d EXCEPT !.header = Append(@, [image |-> img_path, width |-> d.page_width,
                                    height |-> d.page_height])]

\* p = doc.add_paragraph(); add_docx_textbox(p, ...)
add_docx_textbox(d, left_emu, top_emu, width_emu, height_emu, text) ==
    [d EXCEPT !.body = Append(@, [kind |-> "textbox", left |-> left_emu,
                                  top |-> top_emu, width |-> width_emu,
                                  height |-> height_emu, text |-> text])]

\* for b in boxes: ... add_docx_textbox(p, left_emu=px_to_emu(b["left"], dpi), ...)
RECURSIVE add_docx_text(_, _, _)
add_docx_text(d, boxes, dpi) ==
    IF boxes = <<>> THEN d
    ELSE LET b == Head(boxes)
         IN  add_docx_text(
                 add_docx_textbox(d, px_to_emu(b.left, dpi), px_to_emu(b.top, dpi),
                                  px_to_emu(b.width, dpi), px_to_emu(b.height, dpi),
                                  b.text),
                 Tail(boxes), dpi)

\* the body of `if prs:` for one page
pptx_page(p, bg, boxes, w_px, h_px, dpi) ==
    LET w_in == px_to_inches(w_px, dpi)
        h_in == px_to_inches(h_px, dpi)
        slide == add_pptx_text(add_pptx_bg(<<>>, bg, w_in, h_in), boxes, dpi)
    IN  [p EXCEPT !.slide_width = Inches(w_in), !.slide_height = Inches(h_in),
                  !.slides = Append(@, slide)]

\* the body of `if doc:` with the page break one page late (`if i > 1`)
docx_page_break_late(d, n, bg, boxes, w_px, h_px, dpi) ==
    LET w_in == px_to_inches(w_px, dpi)
        h_in == px_to_inches(h_px, dpi)
        d1 == IF n > 2 THEN add_page_break(d) ELSE d
        d2 == [d1 EXCEPT !.page_width = FTrunc(FMulInt(w_in, EMU_PER_INCH)),
                         !.page_height = FTrunc(FMulInt(h_in, EMU_PER_INCH))]
    IN  add_docx_text(add_docx_bg_header(d2, bg), boxes, dpi)

\* the body of `if doc:` for page number n (n = i + 1 of the code)
docx_page(d, n, bg, boxes, w_px, h_px, dpi) ==
    LET w_in == px_to_inches(w_px, dpi)
        h_in == px_to_inches(h_px, dpi)
        d1 == IF n > 1 THEN add_page_break(d) ELSE d
        d2 == [d1 EXCEPT !.page_width = FTrunc(FMulInt(w_in, EMU_PER_INCH)),
                         !.page_height = FTrunc(FMulInt(h_in, EMU_PER_INCH))]
    IN  add_docx_text(add_docx_bg_header(d2, bg), boxes, dpi)

\* cv2.imread(img_path) returns an image
CvReadable(f) == f.fmt = "png"

\* cv2.inpaint + cv2.imwrite: the file written at out_path
Cleaned(f) == [w |-> f.w, h |-> f.h, fmt |-> "png", data |-> <<"clean">> \o f.data]

(***************************************************************************)
(* build_from_json as a state machine.                                     *)
(***************************************************************************)
VARIABLES
    args,      \* the keyword arguments of build_from_json
    images,    \* meta["images"]
    pc,        \* position in build_from_json
    i,         \* number of the page being processed, from 1
    im,        \* the opened image of the page (<<>> before the first)
    boxes,     \* the boxes list being built for the page
    bg_path,   \* background of the page
    prs,       \* <<>> for None, else <<the Presentation>>
    doc,       \* <<>> for None, else <<the Document>>
    disk,      \* the image files on disk
    saved,     \* the output documents written so far
    err,       \* the exception that ended the run ("" when none)
    log,       \* history: the calls made so far, <<what, page, box>>
    opened,    \* history: the pixel size <<w, h>> each page was opened with
    ocr_out,   \* history: what the engine returned for the last box (<<>> before)
    conv,      \* unit-conversion run: <<>> or the record of one conversion
    mask       \* erase-mask run: <<>> or the record of one mask construction

vars == <<args, images, pc, i, im, boxes, bg_path, prs, doc, disk, saved, err,
          log, opened, ocr_out, conv, mask>>

Init ==
    /\ args \in Args
    /\ images \in SeqsUpTo(ImageMetas, MaxPages)
    /\ pc = "load"
    /\ i = 0
    /\ im = <<>>
    /\ boxes = <<>>
    /\ bg_path = <<>>
    /\ prs = <<>>
    /\ doc = <<>>
    /\ disk = Disk0
    /\ saved = [pptx |-> <<>>, docx |-> <<>>]
    /\ err = ""
    /\ log = <<>>
    /\ opened = <<>>
    /\ ocr_out = <<>>
    /\ conv = <<>>
    /\ mask = <<>>

imeta == images[i]
img_path == imeta.path

\* lines 177-184
LoadMetadata ==
    /\ pc = "load"
    /\ prs' = IF args.out_pptx THEN <<Presentation>> ELSE <<>>
    /\ doc' = IF args.out_docx THEN <<Document>> ELSE <<>>
    /\ i' = 1
    /\ pc' = "page"
    /\ UNCHANGED <<args, images, im, boxes, bg_path, disk, saved, err, log, opened, ocr_out, conv, mask>>

\* lines 186-189: Image.open(img_path).convert("RGB")
OpenImage ==
    /\ pc = "page" /\ i <= Len(images)
    /\ img_path \in DOMAIN disk
    /\ im' = <<disk[img_path]>>
    /\ boxes' = <<>>
    /\ pc' = "boxes"
    /\ log' = Append(log, <<"open", i, 0>>)
    /\ opened' = Append(opened, <<disk[img_path].w, disk[img_path].h>>)
    /\ UNCHANGED <<args, images, i, bg_path, prs, doc, disk, saved, err, ocr_out, conv, mask>>

\* a missing image skipped instead of raising
OpenImageSkips ==
    /\ pc = "page" /\ i <= Len(images)
    /\ img_path \notin DOMAIN disk
    /\ i' = i + 1
    /\ UNCHANGED <<args, images, pc, im, boxes, bg_path, prs, doc, disk, saved, err, log, opened, ocr_out, conv, mask>>

\* Image.open raises: no file at img_path
OpenImageFails ==
    /\ pc = "page" /\ i <= Len(images)
    /\ img_path \notin DOMAIN disk
    /\ pc' = "failed"
    /\ err' = "open"
    /\ UNCHANGED <<args, images, i, im, boxes, bg_path, prs, doc, disk, saved, log, opened, ocr_out, conv, mask>>

\* lines 193-198, ocr_prefill on, the engine returns txt
PrefillOcr ==
    /\ pc = "boxes" /\ Len(boxes) < Len(imeta.boxes)
    /\ args.ocr_prefill
    /\ \E txt \in OcrTexts :
         LET k == Len(boxes) + 1
         IN  /\ boxes' = Append(boxes, SetText(imeta.boxes[k], PrefillText(ocr_crop(txt))))
             /\ log' = Append(log, <<"ocr", i, k>>)
             /\ ocr_out' = <<txt>>
    /\ UNCHANGED <<args, images, pc, i, im, bg_path, prs, doc, disk, saved, err, opened, conv, mask>>

\* lines 196-197 and 51: pytesseract.image_to_string raises; nothing catches it
PrefillOcrRaises ==
    /\ pc = "boxes" /\ Len(boxes) < Len(imeta.boxes)
    /\ args.ocr_prefill
    /\ log' = Append(log, <<"ocr", i, Len(boxes) + 1>>)
    /\ pc' = "failed"
    /\ err' = "ocr"
    /\ UNCHANGED <<args, images, i, im, boxes, bg_path, prs, doc, disk, saved, opened, ocr_out, conv, mask>>

\* lines 199-201, ocr_prefill off
PrefillPlaceholder ==
    /\ pc = "boxes" /\ Len(boxes) < Len(imeta.boxes)
    /\ ~args.ocr_prefill
    /\ boxes' = Append(boxes, SetText(imeta.boxes[Len(boxes) + 1], EDIT))
    /\ UNCHANGED <<args, images, pc, i, im, bg_path, prs, doc, disk, saved, err, log, opened, ocr_out, conv, mask>>

\* the erase flag ignored: the source image is used as the background
InpaintSkipped ==
    /\ pc = "boxes" /\ Len(boxes) = Len(imeta.boxes)
    /\ args.erase
    /\ CvReadable(disk[img_path])
    /\ bg_path' = img_path
    /\ pc' = "pptx"
    /\ UNCHANGED <<args, images, i, im, boxes, prs, doc, disk, saved, err, log, opened, ocr_out, conv, mask>>

\* line 204 with erase: inpaint_background writes out_path and returns it
InpaintBackground ==
    /\ pc = "boxes" /\ Len(boxes) = Len(imeta.boxes)
    /\ args.erase
    /\ CvReadable(disk[img_path])
    /\ LET out_path == clean_path(img_path)
       IN  /\ disk' = [q \in DOMAIN disk \cup {out_path} |->
                          IF q = out_path THEN Cleaned(disk[img_path]) ELSE disk[q]]
           /\ bg_path' = out_path
    /\ log' = Append(log, <<"inpaint", i, 0>>)
    /\ pc' = "pptx"
    /\ UNCHANGED <<args, images, i, im, boxes, prs, doc, saved, err, opened, ocr_out, conv, mask>>

\* lines 32-33: cv2.imread returned None
InpaintFails ==
    /\ pc = "boxes" /\ Len(boxes) = Len(imeta.boxes)
    /\ args.erase
    /\ ~CvReadable(disk[img_path])
    /\ pc' = "failed"
    /\ err' = "inpaint"
    /\ UNCHANGED <<args, images, i, im, boxes, bg_path, prs, doc, disk, saved, log, opened, ocr_out, conv, mask>>

\* line 204 without erase
KeepBackground ==
    /\ pc = "boxes" /\ Len(boxes) = Len(imeta.boxes)
    /\ ~args.erase
    /\ bg_path' = img_path
    /\ pc' = "pptx"
    /\ UNCHANGED <<args, images, i, im, boxes, prs, doc, disk, saved, err, log, opened, ocr_out, conv, mask>>

\* lines 209-216
AssemblePptx ==
    /\ pc = "pptx"
    /\ prs # <<>>
    /\ prs' = <<pptx_page(prs[1], bg_path, boxes, im[1].w, im[1].h, args.dpi)>>
    /\ log' = Append(log, <<"pptx", i, 0>>)
    /\ pc' = "docx"
    /\ UNCHANGED <<args, images, i, im, boxes, bg_path, doc, disk, saved, err, opened, ocr_out, conv, mask>>

SkipPptx ==
    /\ pc = "pptx"
    /\ prs = <<>>
    /\ pc' = "docx"
    /\ UNCHANGED <<args, images, i, im, boxes, bg_path, prs, doc, disk, saved, err, log, opened, ocr_out, conv, mask>>

\* lines 218-237, then the next iteration
AssembleDocx ==
    /\ pc = "docx"
    /\ doc # <<>>
    /\ doc' = <<docx_page(doc[1], i, bg_path, boxes, im[1].w, im[1].h, args.dpi)>>
    /\ log' = Append(log, <<"docx", i, 0>>)
    /\ i' = i + 1
    /\ pc' = "page"
    /\ UNCHANGED <<args, images, im, boxes, bg_path, prs, disk, saved, err, opened, ocr_out, conv, mask>>

SkipDocx ==
    /\ pc = "docx"
    /\ doc = <<>>
    /\ i' = i + 1
    /\ pc' = "page"
    /\ UNCHANGED <<args, images, im, boxes, bg_path, prs, doc, disk, saved, err, log, opened, ocr_out, conv, mask>>

\* lines 239-240 after the loop
SaveOutputs ==
    /\ pc = "page" /\ i > Len(images)
    /\ saved' = [pptx |-> prs, docx |-> doc]
    /\ pc' = "done"
    /\ UNCHANGED <<args, images, i, im, boxes, bg_path, prs, doc, disk, err, log, opened, ocr_out, conv, mask>>

Next ==
    \/ LoadMetadata
    \/ OpenImage
    \/ OpenImageFails
    \/ PrefillOcr
    \/ PrefillOcrRaises
    \/ PrefillPlaceholder
    \/ InpaintBackground
    \/ InpaintFails
    \/ KeepBackground
    \/ AssemblePptx
    \/ SkipPptx
    \/ AssembleDocx
    \/ SkipDocx
    \/ SaveOutputs

Spec == Init /\ [][Next]_vars

(***************************************************************************)
(* The unit conversions on their own: one box, one resolution, placed by   *)
(* add_pptx_text on an empty slide and by the docx loop in an empty        *)
(* document.                                                               *)
(***************************************************************************)
MaxPx == 30

ConvDpis == {3, 7, 72, 96, 300, 2000000}

ConvBox(p, q) ==
    [left |-> p, top |-> q, width |-> p + q, height |-> 3 * p + 2 * q + 1, text |-> EDIT]

ConvInit ==
    /\ \E p \in 0..MaxPx, q \in 0..MaxPx, d \in ConvDpis :
         conv = [box |-> ConvBox(p, q), dpi |-> d, slide |-> <<>>, doc |-> <<>>]
    /\ args = [out_pptx |-> TRUE, out_docx |-> TRUE, dpi |-> conv.dpi,
               erase |-> FALSE, ocr_prefill |-> FALSE]
    /\ images = <<>>
    /\ pc = "conv"
    /\ i = 0
    /\ im = <<>>
    /\ boxes = <<>>
    /\ bg_path = <<>>
    /\ prs = <<>>
    /\ doc = <<>>
    /\ disk = Disk0
    /\ saved = [pptx |-> <<>>, docx |-> <<>>]
    /\ err = ""
    /\ log = <<>>
    /\ opened = <<>>
    /\ ocr_out = <<>>
    /\ mask = <<>>

\* lines 70-80 for the one box
ConvPptx ==
    /\ pc = "conv"
    /\ conv.slide = <<>>
    /\ conv' = [conv EXCEPT !.slide = add_pptx_text(<<>>, <<conv.box>>, conv.dpi)]
    /\ UNCHANGED <<args, images, pc, i, im, boxes, bg_path, prs, doc, disk, saved, err, log, opened, ocr_out, mask>>

\* lines 226-237 for the one box
ConvDocx ==
    /\ pc = "conv"
    /\ conv.slide # <<>>
    /\ conv.doc = <<>>
    /\ conv' = [conv EXCEPT !.doc = <<add_docx_text(Document, <<conv.box>>, conv.dpi)>>]
    /\ UNCHANGED <<args, images, pc, i, im, boxes, bg_path, prs, doc, disk, saved, err, log, opened, ocr_out, mask>>

ConvNext ==
    \/ ConvPptx
    \/ ConvDocx

SpecConv == ConvInit /\ [][ConvNext]_vars

(***************************************************************************)
(* The erase mask of inpaint_background on its own: an image of w x h      *)
(* pixels, a list of boxes and expand_px.  A pixel is <<x, y>> with        *)
(* 0 <= x < w and 0 <= y < h; the mask is the set of its pixels set to 255.*)
(***************************************************************************)
max(a, b) == IF a >= b THEN a ELSE b
min(a, b) == IF a <= b THEN a ELSE b

\* np.zeros((h, w)): the pixels of the mask
Pixels(w, h) == (0..(w - 1)) \X (0..(h - 1))

\* the corners handed to cv2.rectangle for box b
corners(b, expand_px, w, h) ==
    [x0 |-> max(0, b.left - expand_px),
     y0 |-> max(0, b.top - expand_px),
     x1 |-> min(w, b.left + b.width + expand_px),
     y1 |-> min(h, b.top + b.height + expand_px)]

\* cv2.rectangle(mask, pt1, pt2, 255, thickness=-1): the pixels of the image
\* between the two opposite corners, both corners included, are set
rectangle(marked, c, w, h) ==
    marked \cup { p \in Pixels(w, h) :
                    /\ min(c.x0, c.x1) <= p[1] /\ p[1] <= max(c.x0, c.x1)
                    /\ min(c.y0, c.y1) <= p[2] /\ p[2] <= max(c.y0, c.y1) }

\* a dilation that reaches two pixels
dilate_5x5(marked, w, h) ==
    { p \in Pixels(w, h) :
        \E q \in marked : /\ q[1] - p[1] \in -2..2
                          /\ q[2] - p[2] \in -2..2 }

\* cv2.dilate(mask, np.ones((3,3)), iterations=1): a pixel is set when a pixel
\* of its 3x3 neighbourhood inside the image is set
dilate(marked, w, h) ==
    { p \in Pixels(w, h) :
        \E q \in marked : /\ q[1] - p[1] \in -1..1
                          /\ q[2] - p[2] \in -1..1 }

MaxDim == 4

MaskExtents == {0, 1, 2}

MaskMargins == {0, 1, 2}

\* boxes inside the image, touching its border and beyond it
MaskBoxes ==
    [left : 0..(MaxDim + 1), top : 0..(MaxDim + 1),
     width : MaskExtents, height : MaskExtents]

\* the second box of a two-box list
MaskSecondBoxes ==
    { [left |-> 0, top |-> 0, width |-> 1, height |-> 1],
      [left |-> MaxDim - 1, top |-> 1, width |-> 2, height |-> 0] }

MaskBoxLists ==
    {<<>>} \cup { <<b>> : b \in MaskBoxes }
           \cup { <<b, c>> : b \in MaskBoxes, c \in MaskSecondBoxes }

\* the state after line 35: the mask is all zero
MaskInit ==
    /\ \E w \in 1..MaxDim, h \in 1..MaxDim, bs \in MaskBoxLists, m \in MaskMargins :
         mask = [w |-> w, h |-> h, boxes |-> bs, expand_px |-> m,
                 k |-> 0, marked |-> {}, dilated |-> FALSE]
    /\ args = [out_pptx |-> TRUE, out_docx |-> TRUE, dpi |-> 96,
               erase |-> TRUE, ocr_prefill |-> FALSE]
    /\ images = <<>>
    /\ pc = "mask"
    /\ i = 0
    /\ im = <<>>
    /\ boxes = <<>>
    /\ bg_path = <<>>
    /\ prs = <<>>
    /\ doc = <<>>
    /\ disk = Disk0
    /\ saved = [pptx |-> <<>>, docx |-> <<>>]
    /\ err = ""
    /\ log = <<>>
    /\ opened = <<>>
    /\ ocr_out = <<>>
    /\ conv = <<>>

\* lines 36-41: one iteration of the loop over the boxes
MaskRectangle ==
    /\ pc = "mask"
    /\ mask.k < Len(mask.boxes)
    /\ LET b == mask.boxes[mask.k + 1]
           c == corners(b, mask.expand_px, mask.w, mask.h)
       IN  mask' = [mask EXCEPT !.k = @ + 1,
                                !.marked = rectangle(@, c, mask.w, mask.h)]
    /\ UNCHANGED <<args, images, pc, i, im, boxes, bg_path, prs, doc, disk, saved, err, log, opened, ocr_out, conv>>

\* line 42 after the loop
MaskDilate ==
    /\ pc = "mask"
    /\ mask.k = Len(mask.boxes)
    /\ ~mask.dilated
    /\ mask' = [mask EXCEPT !.marked = dilate(@, mask.w, mask.h),
                            !.dilated = TRUE]
    /\ UNCHANGED <<args, images, pc, i, im, boxes, bg_path, prs, doc, disk, saved, err, log, opened, ocr_out, conv>>

MaskNext ==
    \/ MaskRectangle
    \/ MaskDilate

SpecMask == MaskInit /\ [][MaskNext]_vars

(***************************************************************************)
(* Properties.                                                             *)
(***************************************************************************)
TextBoxes(shapes) == SelectSeq(shapes, LAMBDA x : x.kind = "textbox")

\* the pages of a document body: the runs of elements between page breaks
RECURSIVE SplitPages(_)
SplitPages(body) ==
    IF body = <<>> THEN << <<>> >>
    ELSE LET init == SplitPages(SubSeq(body, 1, Len(body) - 1))
             last == body[Len(body)]
         IN  IF last.kind = "page_break" THEN Append(init, <<>>)
             ELSE [init EXCEPT ![Len(init)] = Append(@, last)]

\* emu layout units are px pixels at dpi to within one layout unit:
\* |emu - px * 914400 / dpi| <= 1
Near(emu, px, dpi) ==
    LET diff == emu * dpi - px * EMU_PER_INCH
    IN  0 - dpi <= diff /\ diff <= dpi

\* emu is the layout-unit value nearest to px * 914400 / dpi
Nearest(emu, px, dpi) ==
    LET diff == emu * dpi - px * EMU_PER_INCH
    IN  0 - dpi <= 2 * diff /\ 2 * diff <= dpi

GeomNear(tb, b, dpi) ==
    /\ Near(tb.left, b.left, dpi)
    /\ Near(tb.top, b.top, dpi)
    /\ Near(tb.width, b.width, dpi)
    /\ Near(tb.height, b.height, dpi)

Before(n, ev) == \E m \in 1..(n - 1) : log[m] = ev

AllWhitespace(s) == \A k \in 1..Len(s) : s[k] \in Whitespace

\* t is raw without its leading and trailing whitespace
IsTrimOf(t, raw) ==
    \E a \in 0..Len(raw) : \E b \in a..Len(raw) :
        /\ t = SubSeq(raw, a + 1, b)
        /\ \A k \in 1..a : raw[k] \in Whitespace
        /\ \A k \in (b + 1)..Len(raw) : raw[k] \in Whitespace
        /\ t # <<>> => (t[1] \notin Whitespace /\ t[Len(t)] \notin Whitespace)

\* every text placed in a slide deck or a document, assembled or written
PlacedTexts ==
    LET Decks == {prs, saved.pptx} \ {<<>>}
        Docs  == {doc, saved.docx} \ {<<>>}
    IN  UNION { UNION { {sl[k].text : k \in {n \in 1..Len(sl) : sl[n].kind = "textbox"}}
                        : sl \in {d[1].slides[n] : n \in 1..Len(d[1].slides)} } : d \in Decks }
        \cup
        UNION { {d[1].body[k].text : k \in {n \in 1..Len(d[1].body) : d[1].body[n].kind = "textbox"}}
                  : d \in Docs }

\* C1 (as stated in the specification): with erase and ocr_prefill on, a page's reconstruction comes
\* before each of its OCR calls, and all its OCR calls before its assembly.
C1_ReconstructThenOcr ==
    (args.erase /\ args.ocr_prefill) =>
        \A n \in 1..Len(log) :
            LET p == log[n][2] IN
            /\ log[n][1] = "ocr" => Before(n, <<"inpaint", p, 0>>)
            /\ log[n][1] \in {"pptx", "docx"} =>
                   \A k \in 1..Len(images[p].boxes) : Before(n, <<"ocr", p, k>>)

\* C1 (as the code orders it): with erase and ocr_prefill on, a page's steps happen in the
\* order OCR of every region, then background reconstruction, then assembly: no
\* OCR call of a page comes after its reconstruction, the reconstruction comes
\* after the OCR of every region, and every assembly step after the reconstruction.
C1_OcrThenReconstructThenAssemble ==
    (args.erase /\ args.ocr_prefill) =>
        \A n \in 1..Len(log) :
            LET p == log[n][2] IN
            /\ log[n][1] = "ocr" => ~Before(n, <<"inpaint", p, 0>>)
            /\ log[n][1] = "inpaint" =>
                   /\ Before(n, <<"open", p, 0>>)
                   /\ \A k \in 1..Len(images[p].boxes) : Before(n, <<"ocr", p, k>>)
            /\ log[n][1] \in {"pptx", "docx"} => Before(n, <<"inpaint", p, 0>>)

C1_Witness ==
    /\ args.erase /\ args.ocr_prefill
    /\ \E n \in 1..Len(log) :
         /\ log[n][1] = "docx"
         /\ Len(images[log[n][2]].boxes) = 2
         /\ Before(n, <<"pptx", log[n][2], 0>>)

\* C2: with no output format requested the run ends in an error before any
\* per-page work: no image is opened, no OCR call is made, no background
\* file is written, and the run does not complete.
C2_NoFormatIsConfigError ==
    (~args.out_pptx /\ ~args.out_docx) =>
        (log = <<>> /\ disk = Disk0 /\ pc # "done")

\* C3: a failure of the OCR engine on a region's crop does not abort the run.
C3_OcrFailureNotFatal == ~(pc = "failed" /\ err = "ocr")

\* C4: no placed text is empty; with OCR prefill off every text is "[edit]";
\* with it on, every text is "[edit]" or a non-empty engine result without its
\* leading and trailing whitespace, and the text of the box just filled is the
\* trimmed engine result when that is non-empty and "[edit]" otherwise.
C4_TextNeverEmpty ==
    /\ \A t \in PlacedTexts \cup {boxes[k].text : k \in 1..Len(boxes)} :
         /\ t # <<>>
         /\ ~args.ocr_prefill => t = EDIT
         /\ args.ocr_prefill => (t = EDIT \/ \E raw \in OcrTexts : IsTrimOf(t, raw))
    /\ (args.ocr_prefill /\ boxes # <<>>) =>
         LET t == boxes[Len(boxes)].text
             raw == ocr_out[1]
         IN  IF AllWhitespace(raw) THEN t = EDIT ELSE IsTrimOf(t, raw)

C4_Witness ==
    /\ pc = "done"
    /\ args.ocr_prefill
    /\ saved.pptx # <<>> /\ saved.docx # <<>>
    /\ <<"a", " ", "b">> \in PlacedTexts
    /\ EDIT \in PlacedTexts

\* C5: the Background Reconstructor never writes to the source image path of a
\* page of the run: every source image file keeps its content.
C5_SourcesNeverOverwritten ==
    \A k \in 1..Len(images) :
        images[k].path \in DOMAIN Disk0 => disk[images[k].path] = Disk0[images[k].path]

\* C6: a written document has one page/slide per input image, in the order of
\* the images list, and on each page one text box per box, in the order of the
\* boxes list; the slide's picture is that image's background.
PageMatches(tbs, bxs) ==
    /\ Len(tbs) = Len(bxs)
    /\ \A k \in 1..Len(bxs) : GeomNear(tbs[k], bxs[k], args.dpi)

C6_OrderPreserved ==
    pc = "done" =>
      /\ saved.pptx # <<>> =>
           LET sl == saved.pptx[1].slides IN
           /\ Len(sl) = Len(images)
           /\ \A p \in 1..Len(images) :
                /\ PageMatches(TextBoxes(sl[p]), images[p].boxes)
                /\ Len(SelectSeq(sl[p], LAMBDA x : x.kind = "picture")) = 1
                /\ sl[p][1].image \in {images[p].path, clean_path(images[p].path)}
      /\ saved.docx # <<>> =>
           IF images = <<>> THEN saved.docx[1].body = <<>>
           ELSE LET pg == SplitPages(saved.docx[1].body) IN
                /\ Len(pg) = Len(images)
                /\ \A p \in 1..Len(images) : PageMatches(pg[p], images[p].boxes)

C6_Witness ==
    /\ pc = "done"
    /\ saved.pptx # <<>> /\ saved.docx # <<>>
    /\ Len(images) = 2
    /\ images[1].boxes = <<B1, B2>>
    /\ images[2].boxes = <<B2, B1>>

\* C7: in a written document the page/slide of image i has the physical size
\* of image i, whatever the sizes of the other images.
C7_EachPageOwnSize ==
    pc = "done" =>
      \A p \in 1..Len(images) :
        /\ saved.pptx # <<>> =>
             /\ Near(saved.pptx[1].slide_width, opened[p][1], args.dpi)
             /\ Near(saved.pptx[1].slide_height, opened[p][2], args.dpi)
        /\ saved.docx # <<>> =>
             /\ Near(saved.docx[1].page_width, opened[p][1], args.dpi)
             /\ Near(saved.docx[1].page_height, opened[p][2], args.dpi)

\* C8: the left, top, width and height of a region's text box are the same
\* layout-unit values in the slide deck and in the document, and each is within
\* one layout unit of the region's pixel value at the resolution
\* (|value - px * 914400 / dpi| <= 1).
C8_GeometryAgrees ==
    (pc = "conv" /\ conv.doc # <<>>) =>
        LET tb == conv.slide[1]
            dx == conv.doc[1].body[1]
        IN  /\ tb.left = dx.left /\ tb.top = dx.top
            /\ tb.width = dx.width /\ tb.height = dx.height
            /\ GeomNear(tb, conv.box, conv.dpi)
            /\ GeomNear(dx, conv.box, conv.dpi)

\* 13 px at 96 dpi is 123825 units exactly; the double product is just below it
C8_Witness ==
    /\ pc = "conv" /\ conv.doc # <<>>
    /\ conv.dpi = 96 /\ conv.box.left = 13
    /\ conv.doc[1].body[1].left = 123824
    /\ conv.slide[1].left = 123824

\* round((px / dpi) * 914400) in double arithmetic
RoundedProduct(px, dpi) == FRound(FMulInt(FDiv(px, dpi), EMU_PER_INCH))

\* C9: px_to_emu(px, dpi) equals round((px / dpi) * 914400), the layout-unit
\* value nearest to px * 914400 / dpi.
C9_PxToEmuIsNearest ==
    (pc = "conv" /\ conv.doc # <<>>) =>
        LET dx == conv.doc[1].body[1]
            b  == conv.box
        IN  /\ dx.left = RoundedProduct(b.left, conv.dpi)
            /\ dx.top = RoundedProduct(b.top, conv.dpi)
            /\ dx.width = RoundedProduct(b.width, conv.dpi)
            /\ dx.height = RoundedProduct(b.height, conv.dpi)
            /\ Nearest(dx.left, b.left, conv.dpi)
            /\ Nearest(dx.top, b.top, conv.dpi)
            /\ Nearest(dx.width, b.width, conv.dpi)
            /\ Nearest(dx.height, b.height, conv.dpi)

\* C10: a run that failed at a page has written no output document, and a
\* document is written only once every page has been processed and assembled
\* into it, so no written document holds only a prefix of the pages.
C10_NoPartialOutput ==
    /\ pc # "done" => (saved.pptx = <<>> /\ saved.docx = <<>>)
    /\ saved.pptx # <<>> =>
         /\ i = Len(images) + 1
         /\ Len(saved.pptx[1].slides) = Len(images)
         /\ \A p \in 1..Len(images) : \E n \in 1..Len(log) : log[n] = <<"pptx", p, 0>>
    /\ saved.docx # <<>> =>
         /\ i = Len(images) + 1
         /\ \A p \in 1..Len(images) : \E n \in 1..Len(log) : log[n] = <<"docx", p, 0>>

C10_Witness ==
    /\ pc = "failed"
    /\ err \in {"open", "inpaint"}
    /\ i = 2
    /\ prs # <<>> /\ Len(prs[1].slides) = 1
    /\ doc # <<>> /\ doc[1].body # <<>>
    /\ saved.pptx = <<>> /\ saved.docx = <<>>

\* the rectangle [left-m, top-m, left+width+m, top+height+m] of box b
Grown(b, m) ==
    [x0 |-> b.left - m, y0 |-> b.top - m,
     x1 |-> b.left + b.width + m, y1 |-> b.top + b.height + m]

\* rectangle r clamped to the bounds of a w x h image
Clamped(r, w, h) ==
    [x0 |-> IF r.x0 < 0 THEN 0 ELSE r.x0, y0 |-> IF r.y0 < 0 THEN 0 ELSE r.y0,
     x1 |-> IF r.x1 > w THEN w ELSE r.x1, y1 |-> IF r.y1 > h THEN h ELSE r.y1]

StrictlyInside(p, r) ==
    /\ r.x0 < p[1] /\ p[1] < r.x1
    /\ r.y0 < p[2] /\ p[2] < r.y1

Inside(p, r) ==
    /\ r.x0 <= p[1] /\ p[1] <= r.x1
    /\ r.y0 <= p[2] /\ p[2] <= r.y1

MaskRegions == { mask.boxes[n] : n \in 1..Len(mask.boxes) }

\* C11: once the mask is built (all rectangles filled, then dilated), every
\* pixel strictly inside the margin-grown rectangle of a region, clamped to
\* the image, is marked; and every marked pixel is a pixel of the image that
\* lies inside the rectangle of some region grown by the margin and by one
\* more pixel on each side.
C11_MaskCoverage ==
    (pc = "mask" /\ mask.dilated) =>
        /\ mask.marked \subseteq Pixels(mask.w, mask.h)
        /\ \A p \in Pixels(mask.w, mask.h) :
             /\ (\E b \in MaskRegions :
                    StrictlyInside(p, Clamped(Grown(b, mask.expand_px), mask.w, mask.h)))
                  => p \in mask.marked
             /\ p \in mask.marked
                  => \E b \in MaskRegions : Inside(p, Grown(b, mask.expand_px + 1))

\* two regions, one of them reaching beyond the right or bottom border, a
\* pixel strictly inside a clamped rectangle, and a pixel left unmarked
C11_Witness ==
    /\ pc = "mask" /\ mask.dilated
    /\ Len(mask.boxes) = 2
    /\ mask.expand_px > 0
    /\ \E b \in MaskRegions :
         \/ b.left + b.width + mask.expand_px > mask.w
         \/ b.top + b.height + mask.expand_px > mask.h
    /\ \E p \in Pixels(mask.w, mask.h), b \in MaskRegions :
         /\ StrictlyInside(p, Clamped(Grown(b, mask.expand_px), mask.w, mask.h))
         /\ p \in mask.marked
    /\ \E p \in Pixels(mask.w, mask.h) : p \notin mask.marked

Pictures(shapes) == SelectSeq(shapes, LAMBDA x : x.kind = "picture")

\* the background file of page p: out_path of inpaint_background with erase
Background(p) ==
    IF args.erase THEN clean_path(images[p].path) ELSE images[p].path

\* the pictures page p of the written document shows: every page belongs to
\* the document's only section and shows that section's header
DocxPictures(d, p) == d.header

\* C12: in every written document of a run with two or more pages, each
\* slide of the deck and each page of the word-processor document shows
\* exactly one background picture, and it is the background of that page's
\* own input image.
C12_OneBackgroundPerPage ==
    (pc = "done" /\ Len(images) >= 2) =>
        /\ saved.pptx # <<>> =>
             \A p \in 1..Len(images) :
                LET pics == Pictures(saved.pptx[1].slides[p])
                IN  Len(pics) = 1 /\ pics[1].image = Background(p)
        /\ saved.docx # <<>> =>
             \A p \in 1..Len(images) :
                LET pics == DocxPictures(saved.docx[1], p)
                IN  Len(pics) = 1 /\ pics[1].image = Background(p)
====
